---- MODULE Spec2Model ----
(***************************************************************************)
(* A model of system_monitor.py: the command line is parsed, the log sink  *)
(* and the optional SQLite store are opened, and the sampling loop ticks:  *)
(* sample, evaluate thresholds, log, persist, remember the counters, check *)
(* the duration, sleep.                                                    *)
(*                                                                         *)
(* Percentages are kept in tenths of a percent (psutil rounds them to one  *)
(* decimal), so 850 stands for 85.0.  Time is in whole seconds.            *)
(***************************************************************************)
EXTENDS Integers, Sequences, FiniteSets, TLC

VARIABLES
    pc,         \* position of main(): see PcValues
    argv,       \* the command line: the raw token of every flag, None when absent
    tickTime,   \* seconds one tick's work takes on this host
    clock,      \* time.time()
    start_time, \* main's start_time
    prev_net,   \* main's prev_net: None or <<bytes_sent, bytes_recv>>
    now,        \* the tick's timestamp
    snap,       \* what get_snapshot returned for the tick in progress, or None
    log,        \* the lines the logger has emitted
    conn,       \* the sqlite3 connection: "none", "open" or "closed"
    tables,     \* the tables of the database file, in the order of their creation
    db,         \* the committed rows of the database file
    tx,         \* the rows of the connection's open transaction
    ticks       \* number of iterations of the loop started so far

vars == <<pc, argv, tickTime, clock, start_time, prev_net, now, snap,
          log, conn, tables, db, tx, ticks>>

\* Python's None, for values that are otherwise tuples; Some(x) is a value.
None == <<>>
Some(x) == <<x>>

\* Iterations of the loop that are explored.
MaxTicks == 5

-----------------------------------------------------------------------------
(* The command line *)

Digits == <<"0", "1", "2", "3", "4", "5", "6", "7", "8", "9">>

IsDigit(c) == \E i \in 1..10 : Digits[i] = c

DigitVal(c) == (CHOOSE i \in 1..10 : Digits[i] = c) - 1

RECURSIVE NatVal(_)
NatVal(s) ==
    IF s = <<>> THEN 0
    ELSE 10 * NatVal(SubSeq(s, 1, Len(s) - 1)) + DigitVal(s[Len(s)])

AllDigits(s) == Len(s) >= 1 /\ \A i \in 1..Len(s) : IsDigit(s[i])

\* argparse's type=int: int(token) succeeds on an optionally signed decimal.
IsInt(tok) ==
    \/ AllDigits(tok)
    \/ Len(tok) >= 2 /\ tok[1] = "-" /\ AllDigits(Tail(tok))

ParseInt(tok) ==
    IF tok[1] = "-" THEN 0 - NatVal(Tail(tok)) ELSE NatVal(tok)

\* Defaults of the flags.
DefaultInterval == 5
DefaultCpuTh == 80
DefaultMemTh == 80
DefaultDiskTh == 90

IntFlag(tok, default) == IF tok = None THEN default ELSE ParseInt(tok)

ArgsValid(av) ==
    \A f \in {"interval", "duration", "cpu_th", "mem_th", "disk_th"} :
        av[f] = None \/ IsInt(av[f])

ParsedArgs(av) ==
    [interval |-> IntFlag(av.interval, DefaultInterval),
     duration |-> IF av.duration = None THEN None ELSE Some(ParseInt(av.duration)),
     cpu_th   |-> IntFlag(av.cpu_th, DefaultCpuTh),
     mem_th   |-> IntFlag(av.mem_th, DefaultMemTh),
     disk_th  |-> IntFlag(av.disk_th, DefaultDiskTh),
     db       |-> av.db]

\* The command lines explored.  A flag that is not given is None; --db is a
\* string, "" when it is not given (None and "" are both false in `if args.db`).
IntervalTokens == {<<"5">>, <<"0">>, <<"-", "1">>}
DurationTokens == {None, <<"0">>, <<"-", "1">>, <<"1", "2">>}
ThresholdTokens ==
    { <<None, None, None>>,
      <<<<"-", "1">>, None, None>>,
      <<None, <<"8", "1">>, None>>,
      <<<<"8", "1">>, None, <<"9", "0">>>>,
      <<<<"8", "1">>, <<"8", "1">>, None>>,
      <<<<"8", "x">>, None, None>> }
DbTokens == {"", "monitor.db"}

Argvs ==
    { [interval |-> i, duration |-> d, cpu_th |-> t[1], mem_th |-> t[2],
       disk_th |-> t[3], db |-> p] :
        i \in IntervalTokens, d \in DurationTokens, t \in ThresholdTokens,
        p \in DbTokens }

\* Seconds a tick's own work may take.
TickTimes == {0, 1}

-----------------------------------------------------------------------------
(* The metrics provider *)

\* What psutil may report in one tick: <<cpu, mem, disk>> in tenths of a
\* percent and the cumulative <<bytes_sent, bytes_recv>>.  The counters may
\* go down from one tick to the next (a reboot, an interface reset).
Samples ==
    { [cpu_pct |-> 850, mem_pct |-> 500, disk_pct |-> 500,
       net_sent |-> 1000, net_recv |-> 1000],
      [cpu_pct |-> 800, mem_pct |-> 800, disk_pct |-> 900,
       net_sent |-> 200, net_recv |-> 200],
      [cpu_pct |-> 795, mem_pct |-> 805, disk_pct |-> 500,
       net_sent |-> 1736, net_recv |-> 200] }

Max(a, b) == IF a >= b THEN a ELSE b

Delta_unclamped(prev, curr) == curr - prev

\* get_snapshot's delta of one counter.
Delta(prev, curr) == Max(0, curr - prev)

\* get_snapshot(prev_net) given the provider's readings s.
get_snapshot(p, s) ==
    [cpu_pct  |-> s.cpu_pct,
     mem_pct  |-> s.mem_pct,
     disk_pct |-> s.disk_pct,
     net_sent |-> s.net_sent,
     net_recv |-> s.net_recv,
     d_sent   |-> IF p = None THEN 0 ELSE Delta(p[1], s.net_sent),
     d_recv   |-> IF p = None THEN 0 ELSE Delta(p[2], s.net_recv)]

-----------------------------------------------------------------------------
(* Formatting *)

\* f"{pct:.1f}" of a percentage held in tenths: integer part and one decimal.
Fmt1(t) == [whole |-> t \div 10, frac |-> t % 10]

Units == <<"B", "KB", "MB", "GB", "TB">>
Step == 1024

RECURSIVE Scale_gt(_, _, _)
Scale_gt(n, den, i) ==
    IF n > Step * den /\ i < Len(Units)
    THEN Scale_gt(n, den * Step, i + 1)
    ELSE <<den, i>>

\* human_bytes' loop: f = n / den is divided by 1024 while f >= 1024 and a
\* larger unit is left.  Returns <<den, i>>.
RECURSIVE Scale(_, _, _)
Scale(n, den, i) ==
    IF n >= Step * den /\ i < Len(Units)
    THEN Scale(n, den * Step, i + 1)
    ELSE <<den, i>>

\* n / den rounded to a whole number of tenths as "%.1f" rounds a float that
\* is exact: to nearest, a tie to the even neighbour.
RoundTenths(n, den) ==
    LET q == (10 * n) \div den
        r == (10 * n) % den
    IN  IF 2 * r > den \/ (2 * r = den /\ q % 2 = 1) THEN q + 1 ELSE q

\* human_bytes(n): the text as its whole part, its decimals (None when the
\* value is printed with no decimal) and its unit.
human_bytes(n) ==
    LET sc  == Scale(n, 1, 1)
        den == sc[1]
        u   == Units[sc[2]]
    IN  IF n >= 10 * den \/ n % den = 0
        THEN [whole |-> n \div den, frac |-> None, unit |-> u]
        ELSE LET t == RoundTenths(n, den)
             IN  [whole |-> t \div 10, frac |-> Some(t % 10), unit |-> u]

-----------------------------------------------------------------------------
(* Threshold evaluation *)

Breach_strict(pct, th) == pct > 10 * th

Breach_equal(pct, th) == pct = 10 * th

\* `pct >= args.th`, pct in tenths of a percent and th in percent.
Breach(pct, th) == pct >= 10 * th

Metrics == <<"cpu", "mem", "disk">>

Reading(s, m) ==
    CASE m = "cpu" -> s.cpu_pct [] m = "mem" -> s.mem_pct [] m = "disk" -> s.disk_pct

Threshold(a, m) ==
    CASE m = "cpu" -> a.cpu_th [] m = "mem" -> a.mem_th [] m = "disk" -> a.disk_th

\* The level and the message main uses for a breach of metric m.
EventLevel(m) == IF m = "disk" THEN "ERROR" ELSE "WARNING"

EventText(m) ==
    CASE m = "cpu" -> "High CPU Usage"
      [] m = "mem" -> "High Memory Usage"
      [] m = "disk" -> "Disk Usage Critical"

EventOf(s, m) ==
    [level |-> EventLevel(m), text |-> EventText(m), value |-> Fmt1(Reading(s, m))]

Breached(s, a, m) == Breach(Reading(s, m), Threshold(a, m))

\* The three `if`s of main in their order: the events of a tick.
Events(s, a) ==
    LET ev(m) == IF Breached(s, a, m) THEN <<EventOf(s, m)>> ELSE <<>>
    IN  ev("cpu") \o ev("mem") \o ev("disk")

\* The summary message of a tick.
Summary(s) ==
    [cpu |-> Fmt1(s.cpu_pct), mem |-> Fmt1(s.mem_pct), disk |-> Fmt1(s.disk_pct),
     sent |-> human_bytes(s.d_sent), recv |-> human_bytes(s.d_recv)]

-----------------------------------------------------------------------------
(* The state *)

\* argparse's Namespace: fixed once parse_args() has returned.
args == ParsedArgs(argv)

PcValues ==
    {"parse", "rejected", "startup", "sample", "log", "insert_metrics",
     "insert_cpu", "insert_mem", "insert_disk", "commit", "end_tick", "sleep",
     "close", "stopped", "failed", "crashed"}

\* The positions inside the loop.
InLoop ==
    {"sample", "log", "insert_metrics", "insert_cpu", "insert_mem",
     "insert_disk", "commit", "end_tick", "sleep"}

\* The positions between the first INSERT of a tick and its commit.
InTransaction == {"insert_metrics", "insert_cpu", "insert_mem", "insert_disk", "commit"}

NoRows == [metrics |-> <<>>, events |-> <<>>]

S == snap[1]

Init ==
    /\ pc = "parse"
    /\ argv \in Argvs
    /\ tickTime \in TickTimes
    /\ clock = 0
    /\ start_time = None
    /\ prev_net = None
    /\ now = None
    /\ snap = None
    /\ log = <<>>
    /\ conn = "none"
    /\ tables = <<>>
    /\ db = NoRows
    /\ tx = NoRows
    /\ ticks = 0

-----------------------------------------------------------------------------
(* Startup *)

\* parser.parse_args(): a flag whose token is no integer ends the process.
ParseArgs ==
    /\ pc = "parse"
    /\ pc' = IF ArgsValid(argv) THEN "startup" ELSE "rejected"
    /\ UNCHANGED <<argv, tickTime, clock, start_time, prev_net, now, snap,
                   log, conn, tables, db, tx, ticks>>

TableExists(t, name) == \E i \in 1..Len(t) : t[i] = name

\* SQLite's CREATE TABLE [IF NOT EXISTS] name: an existing table is an error
\* unless IF NOT EXISTS is given, and is left as it is then.
CreateTable(t, name, ifNotExists) ==
    IF TableExists(t, name)
    THEN [ok |-> ifNotExists, tables |-> t]
    ELSE [ok |-> TRUE, tables |-> Append(t, name)]

\* Plain CREATE TABLE statements.
init_db_plain(t) ==
    LET m == CreateTable(t, "metrics", FALSE)
    IN  IF m.ok THEN CreateTable(m.tables, "events", FALSE) ELSE m

\* init_db: CREATE TABLE IF NOT EXISTS for both tables.  ok is false when
\* a statement raised.
init_db(t) ==
    LET m == CreateTable(t, "metrics", TRUE)
    IN  IF m.ok THEN CreateTable(m.tables, "events", TRUE) ELSE m

\* `if args.db`.
DbEnabled == args.db # ""

\* main, from init_logger to the priming read of the CPU.
Startup ==
    /\ pc = "startup"
    /\ IF DbEnabled /\ ~init_db(tables).ok
       THEN /\ tables' = init_db(tables).tables
            /\ pc' = "failed"
            /\ UNCHANGED <<conn, start_time, prev_net>>
       ELSE /\ IF DbEnabled
               THEN conn' = "open" /\ tables' = init_db(tables).tables
               ELSE UNCHANGED <<conn, tables>>
            /\ start_time' = Some(clock)
            /\ prev_net' = None
            /\ pc' = "sample"
    /\ UNCHANGED <<argv, tickTime, clock, now, snap, log, db, tx, ticks>>

-----------------------------------------------------------------------------
(* One tick *)

\* iso_now() and get_snapshot(prev_net).  The tick's work takes tickTime.
Sample ==
    /\ pc = "sample"
    /\ \E s \in Samples : snap' = Some(get_snapshot(prev_net, s))
    /\ now' = Some(clock)
    /\ clock' = clock + tickTime
    /\ ticks' = ticks + 1
    /\ pc' = "log"
    /\ UNCHANGED <<argv, tickTime, start_time, prev_net, log, conn, tables, db, tx>>

\* The failure is swallowed and the tick goes on with zeros.
ProviderFail_fallback ==
    /\ pc = "sample"
    /\ snap' = Some(get_snapshot(prev_net,
                    [cpu_pct |-> 0, mem_pct |-> 0, disk_pct |-> 0,
                     net_sent |-> 0, net_recv |-> 0]))
    /\ now' = Some(clock)
    /\ clock' = clock + tickTime
    /\ ticks' = ticks + 1
    /\ pc' = "log"
    /\ UNCHANGED <<argv, tickTime, start_time, prev_net, log, conn, tables, db, tx>>

\* A psutil call raises: the exception leaves main.
ProviderFail ==
    /\ pc = "sample"
    /\ pc' = "failed"
    /\ UNCHANGED <<argv, tickTime, clock, start_time, prev_net, now, snap,
                   log, conn, tables, db, tx, ticks>>

LogLine(level, msg) == [tick |-> ticks, level |-> level, msg |-> msg]

EventLine(e) == LogLine(e.level, [text |-> e.text, value |-> e.value])

\* An event is dropped when the tick before logged the same one.
TickLines_dedup(s, a) ==
    LET ev == Events(s, a)
        Fresh(e) == \A i \in 1..Len(log) :
                       ~(log[i].tick = ticks - 1 /\ log[i].level # "INFO"
                         /\ log[i].msg.text = e.text)
        kept == SelectSeq(ev, Fresh)
    IN  [i \in 1..Len(kept) |-> EventLine(kept[i])] \o <<LogLine("INFO", Summary(s))>>

TickLines_quiet(s, a) ==
    LET ev == Events(s, a)
    IN  IF ev = <<>>
        THEN <<LogLine("INFO", Summary(s))>>
        ELSE [i \in 1..Len(ev) |-> EventLine(ev[i])]

\* The lines one tick logs: a line per event, then the summary at INFO.
TickLines(s, a) ==
    LET ev == Events(s, a)
    IN  [i \in 1..Len(ev) |-> EventLine(ev[i])] \o <<LogLine("INFO", Summary(s))>>

\* The threshold checks and logger.info(msg).
LogTick ==
    /\ pc = "log"
    /\ log' = log \o TickLines(S, args)
    /\ pc' = IF conn = "open" THEN "insert_metrics" ELSE "end_tick"
    /\ UNCHANGED <<argv, tickTime, clock, start_time, prev_net, now, snap,
                   conn, tables, db, tx, ticks>>

MetricsRow_deltas(ts, s) ==
    [ts |-> ts, cpu_pct |-> s.cpu_pct, mem_pct |-> s.mem_pct,
     disk_pct |-> s.disk_pct, net_sent |-> s.d_sent, net_recv |-> s.d_recv]

MetricsRow(ts, s) ==
    [ts |-> ts, cpu_pct |-> s.cpu_pct, mem_pct |-> s.mem_pct,
     disk_pct |-> s.disk_pct, net_sent |-> s.net_sent, net_recv |-> s.net_recv]

\* The event row takes a timestamp of its own when it is inserted.
EventRow_clock(ts, e) ==
    [ts |-> clock, level |-> e.level, message |-> [text |-> e.text, value |-> e.value]]

EventRow(ts, e) ==
    [ts |-> ts, level |-> e.level, message |-> [text |-> e.text, value |-> e.value]]

InsertMetrics_autocommit ==
    /\ pc = "insert_metrics"
    /\ db' = [db EXCEPT !.metrics = Append(@, MetricsRow(now[1], S))]
    /\ pc' = "insert_cpu"
    /\ UNCHANGED <<argv, tickTime, clock, start_time, prev_net, now, snap,
                   log, conn, tables, tx, ticks>>

\* cur.execute('INSERT INTO metrics ...'): the row joins the open transaction.
InsertMetrics ==
    /\ pc = "insert_metrics"
    /\ tx' = [tx EXCEPT !.metrics = Append(@, MetricsRow(now[1], S))]
    /\ pc' = "insert_cpu"
    /\ UNCHANGED <<argv, tickTime, clock, start_time, prev_net, now, snap,
                   log, conn, tables, db, ticks>>

NextInsert(m) ==
    CASE m = "cpu" -> "insert_mem" [] m = "mem" -> "insert_disk" [] m = "disk" -> "commit"

\* `if <m>_pct >= args.<m>_th: cur.execute('INSERT INTO events ...')`.
InsertEvent(m) ==
    /\ pc = "insert_" \o m
    /\ tx' = IF Breached(S, args, m)
             THEN [tx EXCEPT !.events = Append(@, EventRow(now[1], EventOf(S, m)))]
             ELSE tx
    /\ pc' = NextInsert(m)
    /\ UNCHANGED <<argv, tickTime, clock, start_time, prev_net, now, snap,
                   log, conn, tables, db, ticks>>

\* The rows of the last tick replace what was stored.
Committed_latest(d, t) == t

\* What conn.commit() makes of the committed rows d and the transaction t.
Committed(d, t) ==
    [metrics |-> d.metrics \o t.metrics, events |-> d.events \o t.events]

\* conn.commit().
Commit ==
    /\ pc = "commit"
    /\ db' = Committed(db, tx)
    /\ tx' = NoRows
    /\ pc' = "end_tick"
    /\ UNCHANGED <<argv, tickTime, clock, start_time, prev_net, now, snap,
                   log, conn, tables, ticks>>

\* The rows inserted before the failure are committed all the same.
StoreFail_partial ==
    /\ pc \in InTransaction
    /\ db' = Committed(db, tx)
    /\ tx' = NoRows
    /\ pc' = "failed"
    /\ UNCHANGED <<argv, tickTime, clock, start_time, prev_net, now, snap,
                   log, conn, tables, ticks>>

\* An INSERT or the commit raises: the exception leaves main, and SQLite
\* rolls the open transaction back when the connection goes away.
StoreFail ==
    /\ pc \in InTransaction
    /\ tx' = NoRows
    /\ pc' = "failed"
    /\ UNCHANGED <<argv, tickTime, clock, start_time, prev_net, now, snap,
                   log, conn, tables, db, ticks>>

StopReached_early(a, t, t0) ==
    a.duration # None /\ t - t0 + a.interval >= a.duration[1]

\* `if args.duration and ...`: a duration of 0 counts as none.
StopReached_truthy(a, t, t0) ==
    a.duration # None /\ a.duration[1] # 0 /\ t - t0 >= a.duration[1]

StopReached_strict(a, t, t0) == a.duration # None /\ t - t0 > a.duration[1]

\* `(time.time() - start_time) >= args.duration`, when a duration is given.
StopReached(a, t, t0) == a.duration # None /\ t - t0 >= a.duration[1]

EndTick_keep ==
    /\ pc = "end_tick"
    /\ prev_net' = IF prev_net # None /\ (S.net_sent < prev_net[1] \/ S.net_recv < prev_net[2])
                   THEN prev_net
                   ELSE <<S.net_sent, S.net_recv>>
    /\ pc' = IF StopReached(args, clock, start_time[1]) THEN "close" ELSE "sleep"
    /\ UNCHANGED <<argv, tickTime, clock, start_time, now, snap, log, conn,
                   tables, db, tx, ticks>>

\* prev_net = (net_sent, net_recv) and the duration check.
EndTick ==
    /\ pc = "end_tick"
    /\ prev_net' = <<S.net_sent, S.net_recv>>
    /\ pc' = IF StopReached(args, clock, start_time[1]) THEN "close" ELSE "sleep"
    /\ UNCHANGED <<argv, tickTime, clock, start_time, now, snap, log, conn,
                   tables, db, tx, ticks>>

SleepTime_raw(a) == a.interval

\* max(1, args.interval).
SleepTime(a) == Max(1, a.interval)

\* time.sleep(max(1, args.interval)), then the next iteration.
Sleep ==
    /\ pc = "sleep"
    /\ ticks < MaxTicks
    /\ clock' = clock + SleepTime(args)
    /\ pc' = "sample"
    /\ UNCHANGED <<argv, tickTime, start_time, prev_net, now, snap, log, conn,
                   tables, db, tx, ticks>>

Close_leak ==
    /\ pc = "close"
    /\ pc' = "stopped"
    /\ UNCHANGED <<argv, tickTime, clock, start_time, prev_net, now, snap,
                   log, conn, tables, db, tx, ticks>>

\* After the loop: `if conn: conn.close()`.
Close ==
    /\ pc = "close"
    /\ conn' = IF conn = "open" THEN "closed" ELSE conn
    /\ pc' = "stopped"
    /\ UNCHANGED <<argv, tickTime, clock, start_time, prev_net, now, snap,
                   log, tables, db, tx, ticks>>

\* The process is killed or the host goes down inside the loop: the rows of
\* an open transaction are never committed.
Crash ==
    /\ pc \in InLoop
    /\ tx' = NoRows
    /\ pc' = "crashed"
    /\ UNCHANGED <<argv, tickTime, clock, start_time, prev_net, now, snap,
                   log, conn, tables, db, ticks>>

Next ==
    \/ ParseArgs
    \/ Startup
    \/ Sample
    \/ ProviderFail
    \/ LogTick
    \/ InsertMetrics
    \/ \E m \in {"cpu", "mem", "disk"} : InsertEvent(m)
    \/ Commit
    \/ StoreFail
    \/ EndTick
    \/ Sleep
    \/ Close
    \/ Crash

Spec == Init /\ [][Next]_vars

-----------------------------------------------------------------------------
(* A start against a database file that an earlier run left *)

\* What an earlier run may have left at the --db path: nothing, the two
\* empty tables, or the tables with the rows of a tick it committed five
\* seconds before this start (85.0% CPU under its threshold of 80).
OldStores ==
    { [tables |-> <<>>, db |-> NoRows],
      [tables |-> <<"metrics", "events">>, db |-> NoRows],
      [tables |-> <<"metrics", "events">>,
       db |-> [metrics |-> <<[ts |-> -5, cpu_pct |-> 850, mem_pct |-> 500,
                              disk_pct |-> 500, net_sent |-> 1000,
                              net_recv |-> 1000]>>,
               events  |-> <<[ts |-> -5, level |-> "WARNING",
                              message |-> [text |-> "High CPU Usage",
                                           value |-> [whole |-> 85, frac |-> 0]]]>>]] }

\* The command lines explored against it: the store is enabled.
ArgvsSchema ==
    {a \in Argvs : a.db # "" /\ a.mem_th = None /\ a.disk_th = None}

InitSchema ==
    /\ pc = "parse"
    /\ argv \in ArgvsSchema
    /\ tickTime = 0
    /\ clock = 0
    /\ start_time = None
    /\ prev_net = None
    /\ now = None
    /\ snap = None
    /\ log = <<>>
    /\ conn = "none"
    /\ \E o \in OldStores : tables = o.tables /\ db = o.db
    /\ tx = NoRows
    /\ ticks = 0

SpecSchema == InitSchema /\ [][Next]_vars

-----------------------------------------------------------------------------
(* Runs in which neither the provider nor the store fails and nobody kills *)
(* the process                                                             *)

\* The command lines explored: thresholds at their defaults, and those whose
\* duration ends within the iterations explored.
ArgvsLive ==
    {a \in Argvs :
        /\ a.cpu_th = None /\ a.mem_th = None /\ a.disk_th = None
        /\ a.duration = <<"1", "2">> => a.interval = <<"5">>}

InitLive ==
    /\ pc = "parse"
    /\ argv \in ArgvsLive
    /\ tickTime \in TickTimes
    /\ clock = 0
    /\ start_time = None
    /\ prev_net = None
    /\ now = None
    /\ snap = None
    /\ log = <<>>
    /\ conn = "none"
    /\ tables = <<>>
    /\ db = NoRows
    /\ tx = NoRows
    /\ ticks = 0

NextLive ==
    \/ ParseArgs
    \/ Startup
    \/ Sample
    \/ LogTick
    \/ InsertMetrics
    \/ \E m \in {"cpu", "mem", "disk"} : InsertEvent(m)
    \/ Commit
    \/ EndTick
    \/ Sleep
    \/ Close

\* main is sequential: a step that can be taken is taken.
SpecLive == InitLive /\ [][NextLive]_vars /\ WF_vars(NextLive)

-----------------------------------------------------------------------------
(* The summary line over a range of byte deltas *)

\* Counter increases between the first tick and the second.
ByteInputs ==
    {0, 1, 9, 10, 512, 1023, 1024, 1280, 1536, 10188, 10189, 10239, 10240,
     15360, 1048575, 1048576, 1572864, 10485760, 1073741823}

\* A quiet reading: every percentage under its default threshold.
QuietSample(sent, recv) ==
    [cpu_pct |-> 500, mem_pct |-> 500, disk_pct |-> 500,
     net_sent |-> sent, net_recv |-> recv]

\* The second tick of a run with the default flags has just been sampled:
\* the first tick read the counters (0, 0), and this one reads (sent, recv).
InitBytes ==
    /\ pc = "log"
    /\ argv = [interval |-> None, duration |-> None, cpu_th |-> None,
               mem_th |-> None, disk_th |-> None, db |-> ""]
    /\ tickTime = 0
    /\ clock = DefaultInterval
    /\ start_time = Some(0)
    /\ prev_net = <<0, 0>>
    /\ now = Some(DefaultInterval)
    /\ \E sent \in ByteInputs, recv \in ByteInputs :
          snap = Some(get_snapshot(<<0, 0>>, QuietSample(sent, recv)))
    /\ log = <<[tick |-> 1, level |-> "INFO",
                msg |-> Summary(get_snapshot(None, QuietSample(0, 0)))]>>
    /\ conn = "none"
    /\ tables = <<>>
    /\ db = NoRows
    /\ tx = NoRows
    /\ ticks = 2

NextBytes == LogTick

SpecBytes == InitBytes /\ [][NextBytes]_vars

TypeOK ==
    /\ pc \in PcValues
    /\ conn \in {"none", "open", "closed"}
    /\ ticks \in 0..MaxTicks
    /\ Len(db.metrics) <= ticks

-----------------------------------------------------------------------------
(* What the claims speak of *)

\* The configuration is known once parse_args() accepted the command line.
Parsed == pc \notin {"parse", "rejected"}

\* The positions of a tick whose lines have been logged.
Logged == {"insert_metrics", "insert_cpu", "insert_mem", "insert_disk",
           "commit", "end_tick", "sleep", "close", "stopped"}

\* The positions after a tick completed: its dispatch is done and the
\* prior counters are stored.
Completed == {"sleep", "close", "stopped"}

Elapsed == clock - start_time[1]

\* The events due for readings c, m, d (tenths of a percent) under the
\* thresholds of the command line, written out from the policy.
Due(c, m, d) ==
    (IF c >= 10 * args.cpu_th
     THEN <<[level |-> "WARNING", text |-> "High CPU Usage",
             value |-> [whole |-> c \div 10, frac |-> c % 10]]>>
     ELSE <<>>)
    \o (IF m >= 10 * args.mem_th
        THEN <<[level |-> "WARNING", text |-> "High Memory Usage",
                value |-> [whole |-> m \div 10, frac |-> m % 10]]>>
        ELSE <<>>)
    \o (IF d >= 10 * args.disk_th
        THEN <<[level |-> "ERROR", text |-> "Disk Usage Critical",
                value |-> [whole |-> d \div 10, frac |-> d % 10]]>>
        ELSE <<>>)

DueNow == Due(S.cpu_pct, S.mem_pct, S.disk_pct)

\* The lines of tick k, and those of them that report an event.
LinesOf(k) == LET InTick(l) == l.tick = k IN SelectSeq(log, InTick)

EventLinesOf(k) ==
    LET IsEvent(l) == l.tick = k /\ l.level # "INFO"
        ev == SelectSeq(log, IsEvent)
    IN  [i \in 1..Len(ev) |->
            [level |-> ev[i].level, text |-> ev[i].msg.text, value |-> ev[i].msg.value]]

InfoCount(k) == Cardinality({i \in 1..Len(log) : log[i].tick = k /\ log[i].level = "INFO"})

\* The visible rows of the tick stamped ts.
MetricsAt(d, ts) == LET At(r) == r.ts = ts IN SelectSeq(d.metrics, At)

EventsAt(d, ts) ==
    LET At(r) == r.ts = ts
        ev == SelectSeq(d.events, At)
    IN  [i \in 1..Len(ev) |->
            [level |-> ev[i].level, text |-> ev[i].message.text,
             value |-> ev[i].message.value]]

\* The positions of a tick between its sample and its commit.
Uncommitted == {"log", "insert_metrics", "insert_cpu", "insert_mem",
                "insert_disk", "commit"}

LastRow == db.metrics[Len(db.metrics)]

-----------------------------------------------------------------------------
(* C1 *)

\* duration=12, interval=5, a tick takes no time and a sleep lasts the interval.
C1Case == Parsed /\ args.duration = Some(12) /\ args.interval = 5 /\ tickTime = 0

\* C1 as stated: with duration=12 and interval=5 exactly 3 ticks occur and
\* the loop stops after the third without ever starting a 4th.
C1_ThreeTicks == C1Case => ticks <= 3 /\ (pc = "stopped" => ticks = 3)

\* C1, amended: with duration=12 and interval=5 exactly 4 ticks occur, at
\* elapsed times 0, 5, 10 and 15; the loop does not stop before the fourth
\* tick, stops after it and never starts a 5th.
C1_FourTicks ==
    C1Case =>
        /\ ticks <= 4
        /\ now # None => now[1] = 5 * (ticks - 1)
        /\ pc \in {"close", "stopped"} => ticks = 4
        /\ ticks = 4 => pc # "sleep"

C1_Witness == C1Case /\ pc = "stopped" /\ ticks = 4 /\ now = Some(15)

-----------------------------------------------------------------------------
(* C2 *)

\* C2: the deltas of a tick are never negative; they are (0, 0) on the first
\* tick; on a later tick each is max(0, current - previous) of its own
\* counter, the previous reading being the one the loop holds and, with the
\* store enabled, the raw counters of the row the preceding tick committed.
C2_Deltas ==
    snap # None =>
        /\ S.d_sent >= 0 /\ S.d_recv >= 0
        /\ ticks = 1 => S.d_sent = 0 /\ S.d_recv = 0
        /\ (ticks > 1 /\ pc \in Uncommitted \cup {"end_tick"}) =>
              /\ S.d_sent = (IF S.net_sent > prev_net[1] THEN S.net_sent - prev_net[1] ELSE 0)
              /\ S.d_recv = (IF S.net_recv > prev_net[2] THEN S.net_recv - prev_net[2] ELSE 0)
        /\ (ticks > 1 /\ pc \in Uncommitted /\ conn = "open") =>
              /\ S.d_sent = (IF S.net_sent > LastRow.net_sent
                             THEN S.net_sent - LastRow.net_sent ELSE 0)
              /\ S.d_recv = (IF S.net_recv > LastRow.net_recv
                             THEN S.net_recv - LastRow.net_recv ELSE 0)

\* A tick whose sent counter rose by 736 while its recv counter fell.
C2_Witness ==
    /\ pc = "log" /\ conn = "open" /\ ticks > 1
    /\ LastRow.net_sent = 1000 /\ LastRow.net_recv = 1000
    /\ S.net_sent = 1736 /\ S.net_recv = 200
    /\ S.d_sent = 736 /\ S.d_recv = 0

-----------------------------------------------------------------------------
(* C3 *)

\* C3: when a tick has completed, the stored prior counters are that tick's
\* raw counters, a decrease or not; so during the next tick they are the raw
\* counters of the row the preceding tick committed.
C3_PrevIsRaw ==
    /\ pc \in Completed => prev_net = <<S.net_sent, S.net_recv>>
    /\ (ticks > 1 /\ pc \in Uncommitted /\ conn = "open") =>
          prev_net = <<LastRow.net_sent, LastRow.net_recv>>

\* The tick after a reset tick (1000,1000) -> (200,200) measures from 200.
C3_Witness ==
    /\ pc = "log" /\ conn = "open" /\ ticks > 2
    /\ db.metrics[Len(db.metrics) - 1].net_sent = 1000
    /\ db.metrics[Len(db.metrics) - 1].net_recv = 1000
    /\ LastRow.net_sent = 200 /\ LastRow.net_recv = 200
    /\ prev_net = <<200, 200>>
    /\ S.net_sent = 1000 /\ S.d_sent = 800 /\ S.d_recv = 800

-----------------------------------------------------------------------------
(* C4 *)

\* C4: the events a tick logs are exactly those due by the policy: a WARNING
\* for the CPU iff cpu_pct >= cpu_th, a WARNING for the memory iff mem_pct >=
\* mem_th, an ERROR for the disk iff disk_pct >= disk_th, each on its own, a
\* value equal to its threshold included, in the order CPU, memory, disk; and
\* cpu=85, mem=50, disk=50 under 80/80/90 gives the one WARNING for the CPU.
C4_Events ==
    pc \in Logged =>
        /\ EventLinesOf(ticks) = DueNow
        /\ (/\ S.cpu_pct = 850 /\ S.mem_pct = 500 /\ S.disk_pct = 500
            /\ args.cpu_th = 80 /\ args.mem_th = 80 /\ args.disk_th = 90) =>
              EventLinesOf(ticks) =
                  <<[level |-> "WARNING", text |-> "High CPU Usage",
                     value |-> [whole |-> 85, frac |-> 0]]>>

\* The scenario of the claim, after a tick whose three readings equalled
\* their thresholds and gave three events.
C4_Witness ==
    /\ pc \in Logged /\ ticks = 2
    /\ args.cpu_th = 80 /\ args.mem_th = 80 /\ args.disk_th = 90
    /\ Len(EventLinesOf(1)) = 3
    /\ S.cpu_pct = 850 /\ S.mem_pct = 500 /\ S.disk_pct = 500
    /\ Len(EventLinesOf(2)) = 1

-----------------------------------------------------------------------------
(* C5 *)

\* The visible rows stamped ts are those of a whole tick or none.
AtomicAt(d, ts) ==
    LET m == MetricsAt(d, ts)
    IN  \/ m = <<>> /\ EventsAt(d, ts) = <<>>
        \/ Len(m) = 1 /\ EventsAt(d, ts) = Due(m[1].cpu_pct, m[1].mem_pct, m[1].disk_pct)

C5_Visible == Parsed => \A ts \in 0..clock : AtomicAt(db, ts)

\* A failure or a crash between the first INSERT of a tick and its commit.
C5_Interrupted ==
    (pc \in InTransaction /\ pc' \in {"failed", "crashed"}) =>
        MetricsAt(db', now[1]) = <<>> /\ EventsAt(db', now[1]) = <<>>

\* C5: at every point the visible store holds, of each tick, its metrics row
\* with all its event rows or nothing; and after a failure or a crash between
\* a tick's first INSERT and its commit no row of that tick is visible.
C5_Atomic == []C5_Visible /\ [][C5_Interrupted]_vars

\* A crash after the lines of tick 2..n were logged and before its rows were
\* committed: the rows of the earlier ticks are all there, none of this one.
C5_Witness ==
    /\ pc = "crashed" /\ conn = "open" /\ ticks >= 2
    /\ InfoCount(ticks) = 1 /\ DueNow # <<>>
    /\ Len(db.metrics) = ticks - 1
    /\ MetricsAt(db, now[1]) = <<>> /\ EventsAt(db, now[1]) = <<>>

-----------------------------------------------------------------------------
(* C6 *)

\* C6: with the store enabled, a completed tick has added exactly one metrics
\* row, with the tick's timestamp, its three percentages and its two raw
\* counters, and one events row for each of its events, with the event's
\* level and message; a tick in progress has added none yet.
C6_Rows ==
    conn # "none" =>
        /\ pc = "sample" => Len(db.metrics) = ticks
        /\ pc \in Uncommitted => Len(db.metrics) = ticks - 1
        /\ pc \in Completed \cup {"end_tick"} =>
              /\ Len(db.metrics) = ticks
              /\ LastRow = [ts |-> now[1], cpu_pct |-> S.cpu_pct, mem_pct |-> S.mem_pct,
                            disk_pct |-> S.disk_pct, net_sent |-> S.net_sent,
                            net_recv |-> S.net_recv]
              /\ Len(MetricsAt(db, now[1])) = 1
              /\ EventsAt(db, now[1]) = DueNow
              /\ Len(db.events) =
                    Cardinality({i \in 1..Len(log) : log[i].level # "INFO"})

C6_Witness ==
    /\ pc = "sleep" /\ conn = "open" /\ ticks = 3
    /\ Len(db.metrics) = 3 /\ Len(DueNow) = 3 /\ Len(db.events) >= 4
    /\ LastRow.net_sent = 200 /\ S.d_sent = 0

-----------------------------------------------------------------------------
(* C7 *)

Stopping == {"close", "stopped"}

C7_Step ==
    /\ (pc \notin Stopping /\ pc' \in Stopping) =>
          /\ pc = "end_tick" /\ pc' = "close"
          /\ args.duration # None /\ Elapsed >= args.duration[1]
          /\ InfoCount(ticks) = 1 /\ EventLinesOf(ticks) = DueNow
          /\ tx = NoRows
          /\ conn = "open" => Len(MetricsAt(db, now[1])) = 1
          /\ prev_net' = <<S.net_sent, S.net_recv>>
    /\ (pc = "end_tick" /\ args.duration # None /\ Elapsed >= args.duration[1]) =>
          pc' \in {"close", "crashed"}
    /\ pc \in Stopping =>
          /\ pc' \in Stopping
          /\ ticks' = ticks /\ clock' = clock /\ log' = log /\ db' = db

\* C7: the loop goes to its end only from the duration check that follows a
\* tick's whole dispatch (lines logged, rows committed, prior counters
\* stored), and only with a duration given and reached; the tick at whose end
\* the duration is reached is followed by no sleep and no sample.
C7_StopAfterDispatch == [][C7_Step]_vars

C7_Witness ==
    /\ pc = "stopped" /\ ticks >= 2 /\ conn = "closed"
    /\ Elapsed >= args.duration[1] /\ Len(db.metrics) = ticks

-----------------------------------------------------------------------------
(* C8 *)

\* C8: every tick logs exactly one INFO line, and besides it exactly one
\* line for each of its events, at the event's level (WARNING for the CPU
\* and the memory, ERROR for the disk) and with the event's message.
C8_Lines ==
    Parsed =>
        /\ \A k \in 1..ticks :
              (k < ticks \/ pc \in Logged \cup {"sample"}) => InfoCount(k) = 1
        /\ pc = "log" => LinesOf(ticks) = <<>>
        /\ pc \in Logged =>
              /\ Len(LinesOf(ticks)) = 1 + Len(DueNow)
              /\ EventLinesOf(ticks) = DueNow
        /\ \A i \in 1..Len(log) :
              log[i].level # "INFO" =>
                  /\ log[i].level = "ERROR" <=> log[i].msg.text = "Disk Usage Critical"
                  /\ log[i].level = "WARNING" <=>
                        log[i].msg.text \in {"High CPU Usage", "High Memory Usage"}

\* A tick with no event after a tick with two, a WARNING and an ERROR.
C8_Witness ==
    /\ pc = "end_tick" /\ ticks = 2
    /\ Len(LinesOf(1)) = 3 /\ InfoCount(1) = 1
    /\ \E i \in 1..Len(log) : log[i].tick = 1 /\ log[i].level = "ERROR"
    /\ Len(LinesOf(2)) = 1 /\ InfoCount(2) = 1 /\ DueNow = <<>>

-----------------------------------------------------------------------------
(* C9 *)

\* A flag that is no integer, or a negative threshold.
InvalidConfig ==
    \/ ~ArgsValid(argv)
    \/ args.cpu_th < 0 \/ args.mem_th < 0 \/ args.disk_th < 0

\* C9: under an invalid configuration, such as a negative threshold, no
\* sample is taken, no line is logged and no row is written.
C9_InvalidRejected ==
    InvalidConfig => ticks = 0 /\ log = <<>> /\ db = NoRows

-----------------------------------------------------------------------------
(* C10 *)

\* C10: when the loop has stopped, the store connection, if one was opened,
\* is closed, whatever the last tick logged.
C10_Closed ==
    pc = "stopped" => conn # "open" /\ (DbEnabled => conn = "closed")

\* Stopped after a last tick that logged the ERROR of the disk.
C10_Witness ==
    /\ pc = "stopped" /\ conn = "closed"
    /\ \E i \in 1..Len(log) : log[i].tick = ticks /\ log[i].level = "ERROR"

-----------------------------------------------------------------------------
(* C11 *)

C11_Step ==
    /\ (pc = "sleep" /\ pc' = "sample") =>
          /\ clock' - clock = (IF args.interval >= 1 THEN args.interval ELSE 1)
          /\ clock' - clock >= 1
    /\ (pc = "sample" /\ pc' = "log" /\ ticks >= 1) => now'[1] - now[1] >= 1

\* C11: the sleep between two ticks lasts max(1, interval), at least 1 second
\* whatever the interval (0 and negative values included), so a tick starts
\* at least 1 second after the tick before it.
C11_SleepFloor == [][C11_Step]_vars

\* The second tick under --interval -1, one second after the first.
C11_Witness ==
    /\ Parsed /\ args.interval = -1 /\ tickTime = 0
    /\ ticks = 2 /\ pc = "log" /\ now = Some(1)

-----------------------------------------------------------------------------
(* C12 *)

\* The reading a summary line reports, in tenths of a percent.
Tenths(v) == 10 * v.whole + v.frac

\* The summary line of tick k.
InfoOf(k) == log[CHOOSE i \in 1..Len(log) : log[i].tick = k /\ log[i].level = "INFO"]

\* The ticks whose lines are all logged.
LoggedTicks == {k \in 1..ticks : k < ticks \/ pc \in Logged \cup {"sample"}}

\* C12: at the end of a tick, the events logged for every tick so far are
\* those due by that tick's own readings and the thresholds, whatever the
\* ticks before it logged; so a metric at or above its threshold in n
\* consecutive ticks gives n events, one per tick.
C12_NoDedup ==
    pc = "end_tick" =>
        \A k \in LoggedTicks :
            LET m == InfoOf(k).msg
            IN  EventLinesOf(k) = Due(Tenths(m.cpu), Tenths(m.mem), Tenths(m.disk))

\* Three ticks in a row at 85.0% CPU under the threshold 80: three events.
C12_Witness ==
    /\ Parsed /\ args.cpu_th = 80 /\ ticks = 3 /\ pc \in Logged
    /\ \A k \in 1..3 :
          /\ Tenths(InfoOf(k).msg.cpu) = 850
          /\ EventLinesOf(k) = <<[level |-> "WARNING", text |-> "High CPU Usage",
                                  value |-> [whole |-> 85, frac |-> 0]]>>

-----------------------------------------------------------------------------
(* C13 *)

\* The readings are some that the provider returned.
FromProvider(c, m, d) ==
    \E s \in Samples : s.cpu_pct = c /\ s.mem_pct = m /\ s.disk_pct = d

C13_Real ==
    /\ snap # None =>
          \E s \in Samples :
              /\ s.cpu_pct = S.cpu_pct /\ s.mem_pct = S.mem_pct
              /\ s.disk_pct = S.disk_pct
              /\ s.net_sent = S.net_sent /\ s.net_recv = S.net_recv
    /\ \A i \in 1..Len(log) :
          log[i].level = "INFO" =>
              FromProvider(Tenths(log[i].msg.cpu), Tenths(log[i].msg.mem),
                           Tenths(log[i].msg.disk))
    /\ \A i \in 1..Len(db.metrics) :
          LET r == db.metrics[i]
          IN  \E s \in Samples :
                  /\ s.cpu_pct = r.cpu_pct /\ s.mem_pct = r.mem_pct
                  /\ s.disk_pct = r.disk_pct
                  /\ s.net_sent = r.net_sent /\ s.net_recv = r.net_recv

C13_Step ==
    /\ (pc = "sample" /\ pc' # "log") =>
          /\ pc' \in {"failed", "crashed"}
          /\ log' = log /\ db' = db /\ tx' = tx /\ ticks' = ticks
    /\ pc = "failed" => UNCHANGED vars

\* C13: every value logged or stored is a reading the provider returned; a
\* tick whose sampling fails logs no line and writes no row, and after the
\* failure nothing more happens: no later tick is started.
C13_ProviderFatal == []C13_Real /\ [][C13_Step]_vars

\* Without a store only the provider can fail: the third tick failed.
C13_Witness ==
    /\ pc = "failed" /\ conn = "none" /\ ticks = 2
    /\ InfoCount(1) = 1 /\ InfoCount(2) = 1
    /\ Len(log) = Len(LinesOf(1)) + Len(LinesOf(2))
    /\ prev_net = <<S.net_sent, S.net_recv>>

-----------------------------------------------------------------------------
(* C14 *)

C14_Step ==
    /\ (pc \in InTransaction /\ pc' = "failed") =>
          /\ InfoCount(ticks) = 1 /\ EventLinesOf(ticks) = DueNow
          /\ log' = log
          /\ db' = db /\ Len(db'.metrics) = ticks - 1
          /\ MetricsAt(db', now[1]) = <<>> /\ EventsAt(db', now[1]) = <<>>
    /\ pc = "failed" => UNCHANGED vars

\* C14: when an INSERT or the commit of a tick fails, the summary line and
\* the event lines of that tick are already logged and stay, the visible
\* store is what the tick before left, and the run is over: nothing is
\* sampled, logged or written afterwards.
C14_StoreFailure == [][C14_Step]_vars

\* The store failed in the second tick, which had logged three events.
C14_Witness ==
    /\ pc = "failed" /\ conn = "open" /\ ticks = 2
    /\ InfoCount(2) = 1 /\ Len(EventLinesOf(2)) = 3
    /\ Len(db.metrics) = 1 /\ MetricsAt(db, now[1]) = <<>>

-----------------------------------------------------------------------------
(* C15 *)

TableCount(t, name) == Cardinality({i \in 1..Len(t) : t[i] = name})

C15_Step ==
    (pc = "startup" /\ DbEnabled) =>
        /\ pc' = "sample" /\ conn' = "open"
        /\ TableCount(tables', "metrics") = 1 /\ TableCount(tables', "events") = 1
        /\ Len(tables') = 2
        /\ tables # <<>> => tables' = tables
        /\ db' = db
        /\ init_db(tables').ok /\ init_db(tables').tables = tables'

\* C15: opening the store where the two tables already exist (a second
\* start, or init_db a second time) raises nothing, leaves one metrics table
\* and one events table and leaves the stored rows as they were.
C15_Idempotent == [][C15_Step]_vars

\* A second start: the loop is entered over the rows of the earlier run.
C15_Witness ==
    /\ pc = "sample" /\ ticks = 0 /\ conn = "open"
    /\ tables = <<"metrics", "events">>
    /\ Len(db.metrics) = 1 /\ db.metrics[1].ts = -5 /\ Len(db.events) = 1

-----------------------------------------------------------------------------
(* C16 *)

IsPrefix(a, b) == Len(a) <= Len(b) /\ SubSeq(b, 1, Len(a)) = a

\* The event rows due for the tick in progress.
DueRows ==
    [i \in 1..Len(DueNow) |->
        [ts |-> now[1], level |-> DueNow[i].level,
         message |-> [text |-> DueNow[i].text, value |-> DueNow[i].value]]]

C16_Step ==
    /\ IsPrefix(db.metrics, db'.metrics) /\ IsPrefix(db.events, db'.events)
    /\ Len(db'.metrics) >= Len(db.metrics) /\ Len(db'.events) >= Len(db.events)
    /\ IF pc = "commit" /\ pc' = "end_tick"
       THEN /\ db'.metrics =
                  Append(db.metrics,
                         [ts |-> now[1], cpu_pct |-> S.cpu_pct, mem_pct |-> S.mem_pct,
                          disk_pct |-> S.disk_pct, net_sent |-> S.net_sent,
                          net_recv |-> S.net_recv])
            /\ db'.events = db.events \o DueRows
       ELSE db' = db

\* C16: no step of the program changes or removes a committed row; a tick
\* leaves each table as it was before the tick followed by the rows the tick
\* appended, so no table ever gets shorter.
C16_AppendOnly == [][C16_Step]_vars

\* The second tick of a run committed after the rows of an earlier run.
C16_Witness ==
    /\ pc = "end_tick" /\ ticks = 2
    /\ Len(db.metrics) = 3 /\ db.metrics[1].ts = -5
    /\ Len(db.events) >= 3 /\ db.events[1].ts = -5

-----------------------------------------------------------------------------
(* C17 *)

\* The tick in progress logged the event of metric m.
Hit(m) == \E i \in 1..Len(log) :
              /\ log[i].tick = ticks /\ log[i].level # "INFO"
              /\ log[i].msg.text = EventText(m)

\* C17: for the reading of a tick, a threshold above the configured one
\* gives a breach only if the tick logged one, a threshold below it gives a
\* breach whenever the tick logged one, a breach at a threshold is a breach
\* at every lower one, and a reading equal to its threshold is logged.
C17_Monotone ==
    pc = "end_tick" =>
        \A m \in {"cpu", "mem", "disk"} :
            LET v  == Reading(S, m)
                th == Threshold(args, m)
            IN  /\ IF Hit(m)
                   THEN \A t \in -2..101 : t <= th => Breach(v, t)
                   ELSE v # 10 * th /\ \A t \in -2..101 : t >= th => ~Breach(v, t)
                /\ \A t \in -2..101 :
                      /\ Breach(v, t) => Breach(v, t - 1)
                      /\ (10 * t = v) => Breach(v, t)

\* CPU at 80.0 under 80 is logged; memory at 80.0 under 81 is not.
C17_Witness ==
    /\ pc = "end_tick"
    /\ S.cpu_pct = 800 /\ args.cpu_th = 80 /\ Hit("cpu")
    /\ S.mem_pct = 800 /\ args.mem_th = 81 /\ ~Hit("mem")

-----------------------------------------------------------------------------
(* C18 *)

\* r is the text of n bytes (n below 2^30): the unit is the largest of B, KB,
\* MB whose scaled value n / den is below 1024; the value has no decimal when
\* it is >= 10 or whole, and otherwise one decimal, the nearest tenth.
Rendered(n, r) ==
    \E i \in 1..3 :
        LET den == Step ^ (i - 1)
        IN  /\ i = 1 \/ n >= den
            /\ n < Step * den
            /\ r.unit = <<"B", "KB", "MB">>[i]
            /\ IF n >= 10 * den \/ n % den = 0
               THEN r.frac = None /\ r.whole = n \div den
               ELSE /\ r.frac # None /\ r.frac[1] \in 0..9
                    /\ LET t == 10 * r.whole + r.frac[1]
                           e == t * den - 10 * n
                       IN  2 * e <= den /\ 2 * e >= 0 - den

Text(w, f, u) == [whole |-> w, frac |-> f, unit |-> u]

-----------------------------------------------------------------------------
(* C19 *)

\* C19: with a duration given (0 and negative included) and no failure, the
\* loop completes at least one tick and then stops; with none given it never
\* stops and goes on ticking, through every iteration explored.
C19_Termination ==
    /\ [](pc = "startup" /\ args.duration # None =>
              <>(pc = "stopped" /\ ticks >= 1 /\ InfoCount(1) = 1))
    /\ [](Parsed /\ args.duration = None => pc \notin {"close", "stopped"})
    /\ [](pc = "startup" /\ args.duration = None =>
              <>(ticks = MaxTicks /\ pc = "sleep"))

\* Stopped after the one tick of --duration -1.
C19_Witness ==
    /\ pc = "stopped" /\ args.duration = Some(-1) /\ ticks = 1
    /\ InfoCount(1) = 1

-----------------------------------------------------------------------------
(* C20 *)

\* The levels and messages of all WARNING and ERROR lines, in their order.
AllEventLines ==
    LET IsEvent(l) == l.level # "INFO"
        ev == SelectSeq(log, IsEvent)
    IN  [i \in 1..Len(ev) |-> [level |-> ev[i].level, msg |-> ev[i].msg]]

AllEventRows ==
    [i \in 1..Len(db.events) |->
        [level |-> db.events[i].level, msg |-> db.events[i].message]]

\* C20: with the store enabled, when a tick is committed the events table
\* holds, in the same order, the level and message of every WARNING and ERROR
\* line logged so far; the event rows of the tick are its logged events; and
\* every event row carries the timestamp of the metrics row of its tick, the
\* one taken at the start of the tick.
C20_Agree ==
    (conn # "none" /\ pc \in Completed \cup {"end_tick"}) =>
        /\ AllEventRows = AllEventLines
        /\ EventsAt(db, now[1]) = EventLinesOf(ticks)
        /\ LastRow.ts = now[1]
        /\ \A i \in 1..Len(db.events) :
              \E k \in 1..Len(db.metrics) : db.metrics[k].ts = db.events[i].ts
        /\ \A i \in 1..Len(db.events) :
              db.events[i].ts = now[1] \/ i <= Len(db.events) - Len(EventLinesOf(ticks))

\* Two ticks that take a second each, the second with three events.
C20_Witness ==
    /\ pc = "sleep" /\ conn = "open" /\ ticks = 2 /\ tickTime = 1
    /\ Len(EventLinesOf(2)) = 3 /\ Len(db.events) >= 4
    /\ clock > now[1]

====
